---- MODULE Spec2Model ----
(***************************************************************************)
(* Model of src/main.ts: the Auto Temp Cleaner plugin.                     *)
(*                                                                         *)
(* State: the plugin's fields (settings, intervalId), the persisted data,  *)
(* the host's vault (folders with their live children arrays, file         *)
(* creation times), the host's timers, the clock, the runCleanUp calls in  *)
(* flight (each suspended at `await trashFile`), and the interval-input    *)
(* handlers suspended at `await saveSettings`.                             *)
(*                                                                         *)
(* Strings that the code parses or normalises (input values, paths) are    *)
(* sequences of one-character strings.                                     *)
(*                                                                         *)
(* The host: trashFile is asynchronous; the file leaves the vault when the *)
(* awaited promise resolves, or the promise rejects and the file stays.    *)
(* runCleanUp iterates folder.children, an array the host owns, across its *)
(* awaits.  Whether the host removes a trashed child from that very array  *)
(* (a splice in place, which shifts the elements an iterator has yet to    *)
(* read) or installs a new array is the host's choice, so both are         *)
(* modelled: inPlace is chosen in the initial state and never changes.     *)
(*                                                                         *)
(* Handlers of the settings tab whose code after `await saveSettings` only *)
(* shows a notice or redraws the tab are single steps; the interval        *)
(* handler, which restarts the scheduler after the await, is two.          *)
(***************************************************************************)
EXTENDS Integers, Sequences, FiniteSets, Bags, TLC

VARIABLES
    phase,          \* plugin lifecycle: "new", "loaded", "unloaded"
    settings,       \* this.settings
    intervalId,     \* this.intervalId (0 is null)
    data,           \* what loadData() returns: the persisted key-value record
    timers,         \* host: live (un-cancelled) timers, handle -> period in ms
    children,       \* host: folder -> its children array
    ctime,          \* host: file -> stat.ctime
    inPlace,        \* host: a deletion splices the children array in place
    clock,          \* Date.now()
    sweeps,         \* the bag of runCleanUp activations
    pendingSave,    \* interval onChange handlers suspended at await saveSettings
    notices         \* the Notice texts emitted by the last step, in order

vars == <<phase, settings, intervalId, data, timers, children, ctime, inPlace,
          clock, sweeps, pendingSave, notices>>

----------------------------------------------------------------------------
(* Bounds of the model *)

\* runCleanUp activations that may be suspended at the same time
MaxSweeps == 2
\* interval onChange handlers that may be suspended at the same time
MaxPending == 2
\* timer handles the host hands out
MaxTimers == 2

----------------------------------------------------------------------------
(* Strings *)

tmp      == <<"t","m","p">>
tmpSub   == <<"t","m","p","/","s">>
fileA    == <<"t","m","p","/","a",".","m","d">>
fileB    == <<"t","m","p","/","b",".","m","d">>
fileC    == <<"t","m","p","/","c",".","t","x","t">>
fileD    == <<"t","m","p","/","s","/","d",".","m","d">>
md       == <<"m","d">>

Digits == {"0","1","2","3","4","5","6","7","8","9"}
DigitVal == [c \in Digits |->
    CASE c = "0" -> 0 [] c = "1" -> 1 [] c = "2" -> 2 [] c = "3" -> 3
      [] c = "4" -> 4 [] c = "5" -> 5 [] c = "6" -> 6 [] c = "7" -> 7
      [] c = "8" -> 8 [] c = "9" -> 9]

\* a JavaScript number: NaN, or the integer val
NaN    == [nan |-> TRUE, val |-> 0]
Num(n) == [nan |-> FALSE, val |-> n]
isNaN(v) == v.nan

RECURSIVE SkipSpaces(_)
SkipSpaces(s) ==
    IF s # <<>> /\ Head(s) = " " THEN SkipSpaces(Tail(s)) ELSE s

RECURSIVE DigitPrefix(_)
DigitPrefix(s) ==
    IF s # <<>> /\ Head(s) \in Digits THEN <<Head(s)>> \o DigitPrefix(Tail(s))
    ELSE <<>>

RECURSIVE DigitsValue(_)
DigitsValue(ds) ==
    IF ds = <<>> THEN 0
    ELSE 10 * DigitsValue(SubSeq(ds, 1, Len(ds) - 1)) + DigitVal[ds[Len(ds)]]

\* parseInt(value): leading white space skipped, an optional sign, then the
\* longest run of decimal digits; NaN when there is none.
parseInt(value) ==
    LET t    == SkipSpaces(value)
        neg  == t # <<>> /\ Head(t) = "-"
        body == IF t # <<>> /\ Head(t) \in {"-", "+"} THEN Tail(t) ELSE t
        ds   == DigitPrefix(body)
    IN  IF ds = <<>> THEN NaN
        ELSE IF neg THEN Num(0 - DigitsValue(ds)) ELSE Num(DigitsValue(ds))

RECURSIVE DropTrailingSpaces(_)
DropTrailingSpaces(s) ==
    IF s # <<>> /\ s[Len(s)] = " "
    THEN DropTrailingSpaces(SubSeq(s, 1, Len(s) - 1)) ELSE s

\* value.trim()
trim(value) == DropTrailingSpaces(SkipSpaces(value))

RECURSIVE CollapseSlashes(_)
CollapseSlashes(s) ==
    IF s = <<>> THEN <<>>
    ELSE LET c == IF Head(s) = "\\" THEN "/" ELSE Head(s)
         IN  IF c = "/" /\ Len(s) > 1 /\ s[2] \in {"/", "\\"}
             THEN CollapseSlashes(Tail(s))
             ELSE <<c>> \o CollapseSlashes(Tail(s))

\* normalizePath(path): separators collapsed to one "/", leading and
\* trailing separators removed, the empty path is "/".
normalizePath(path) ==
    LET c == CollapseSlashes(path)
        l == IF c # <<>> /\ Head(c) = "/" THEN Tail(c) ELSE c
        r == IF l # <<>> /\ l[Len(l)] = "/" THEN SubSeq(l, 1, Len(l) - 1) ELSE l
    IN  IF r = <<>> THEN <<"/">> ELSE r

----------------------------------------------------------------------------
(* The vault *)

Folders == {tmp, tmpSub}
Files   == {fileA, fileB, fileC, fileD}
Null    == <<>>

RECURSIVE AfterLast(_, _)
AfterLast(s, ch) ==
    IF s = <<>> THEN <<>>
    ELSE IF \E i \in 1..Len(Tail(s)) : Tail(s)[i] = ch THEN AfterLast(Tail(s), ch)
    ELSE IF Head(s) = ch THEN Tail(s) ELSE s

\* TFile.extension: the text after the last dot of the file's name
Extension(path) ==
    LET name == AfterLast(path, "/")
    IN  IF \E i \in 1..Len(name) : name[i] = "." THEN AfterLast(name, ".") ELSE <<>>

Range(s) == {s[i] : i \in 1..Len(s)}

\* the entries the vault holds now
Present == {tmp} \cup UNION {Range(children[f]) : f \in Folders}

\* instanceof TFolder, instanceof TFile: the class of the entry object, which
\* an object keeps after the vault has dropped it
IsTFolder(e) == e \in Folders
IsTFile(e)   == e \in Files

\* vault.getAbstractFileByPath(path)
getAbstractFileByPath(path) == IF path \in Present THEN path ELSE Null

Remove(s, e) == SelectSeq(s, LAMBDA x : x # e)

----------------------------------------------------------------------------
(* Settings *)

Keys == {"targetFolder", "ttlMinites", "checkInterval", "confirmed"}

DEFAULT_SETTINGS ==
    [targetFolder |-> tmp, ttlMinites |-> 1440, checkInterval |-> 0,
     confirmed |-> FALSE]

\* the value of this.settings before loadSettings has assigned it
Undefined == [undefined |-> TRUE]

NoData == [k \in {} |-> 0]

\* Object.assign({}, DEFAULT_SETTINGS, loaded): the keys the loaded record
\* has override the defaults
loadSettings(loaded) ==
    [k \in Keys |-> IF k \in DOMAIN loaded THEN loaded[k] ELSE DEFAULT_SETTINGS[k]]

toMilliSec(minitues) == minitues * 60000

----------------------------------------------------------------------------
(* Notices *)

Notice(kind, n, files) == [kind |-> kind, n |-> n, files |-> files]

StoppedNotice        == Notice("stopped", 0, <<>>)
EveryNotice(n)       == Notice("every", n, <<>>)
WarningNotice        == Notice("warning", 0, <<>>)
DeletedNotice(files) == Notice("deleted", 0, files)
ResetNotice          == Notice("reset", 0, <<>>)
ConfirmNotice(value) == Notice(IF value THEN "enabled" ELSE "disabled", 0, <<>>)

----------------------------------------------------------------------------
(* runCleanUp *)

\* A runCleanUp activation.  pc is "new" (not yet run), "await" (suspended
\* at await trashFile(cur)), "done" (returned) or "threw" (the awaited
\* trashFile rejected).  exit names the return taken.  arr and
\* idx are the array and the position of the for-of iterator; out is the
\* notices the activation has emitted.
\* History kept for the properties: start (this.settings as read when the
\* activation began), listed (folder.children when the loop began), called
\* (the files handed to trashFile, in order) and trashed (the files whose
\* trashFile has resolved, in order).  observed singles out one activation
\* for the termination property; nothing depends on it.
FreeSweep ==
    [pc |-> "new", exit |-> "", folder |-> Null, now |-> 0, ttlMillis |-> 0,
     arr |-> <<>>, idx |-> 0, cur |-> Null, delFiles |-> <<>>, out |-> <<>>,
     start |-> DEFAULT_SETTINGS, listed |-> <<>>, called |-> <<>>,
     trashed |-> <<>>, observed |-> FALSE]

\* ShouldTrash with the extension test left out
ShouldTrash_AnyExtension(file, now, ttlMillis) ==
    /\ IsTFile(file)
    /\ now - ctime[file] > ttlMillis

\* ShouldTrash with >= for >
ShouldTrash_NotStrict(file, now, ttlMillis) ==
    /\ IsTFile(file)
    /\ Extension(file) = md
    /\ now - ctime[file] >= ttlMillis

\* lines 75-77: the test a child must pass to be trashed
ShouldTrash(file, now, ttlMillis) ==
    /\ IsTFile(file)
    /\ Extension(file) = md
    /\ now - ctime[file] > ttlMillis

\* the for-of loop from position i of arr up to the next child that passes
\* the test: that child's position, or 0 when the iterator is exhausted
RECURSIVE NextHit(_, _, _, _)
NextHit(arr, i, now, ttlMillis) ==
    IF i > Len(arr) THEN 0
    ELSE IF ShouldTrash(arr[i], now, ttlMillis) THEN i
    ELSE NextHit(arr, i + 1, now, ttlMillis)

\* Summary without the test of line 83
Summary_EvenIfEmpty(delFiles) == <<DeletedNotice(delFiles)>>

\* lines 83-85: the summary notice
Summary(delFiles) ==
    IF Len(delFiles) > 0 THEN <<DeletedNotice(delFiles)>> ELSE <<>>

\* lines 74-85 from the iterator's position: run to the next await, or to
\* the end of the function
RunLoop(s) ==
    LET h == NextHit(s.arr, s.idx, s.now, s.ttlMillis)
    IN  IF h = 0
        THEN [s EXCEPT !.pc = "done", !.exit = "end", !.cur = Null,
                       !.idx = Len(s.arr) + 1,
                       !.out = @ \o Summary(s.delFiles)]
        ELSE [s EXCEPT !.pc = "await", !.cur = s.arr[h], !.idx = h + 1,
                       !.called = Append(@, s.arr[h])]

\* Sweep with a notice where line 69 returns
Sweep_NoticeIfMissing(s0, st) ==
    LET folderPath == normalizePath(st.targetFolder)
        folder == getAbstractFileByPath(folderPath)
    IN  IF ~IsTFolder(folder)
        THEN [s0 EXCEPT !.pc = "done", !.exit = "nofolder",
                        !.out = <<WarningNotice>>]
        ELSE RunLoop([s0 EXCEPT !.folder = folder, !.now = clock,
                                !.ttlMillis = toMilliSec(st.ttlMinites),
                                !.arr = children[folder], !.idx = 1,
                                !.listed = children[folder]])

\* lines 67-74: the folder lookup and the loop's first run
Sweep(s0, st) ==
    LET folderPath == normalizePath(st.targetFolder)
        folder == getAbstractFileByPath(folderPath)
    IN  IF ~IsTFolder(folder)
        THEN [s0 EXCEPT !.pc = "done", !.exit = "nofolder"]
        ELSE RunLoop([s0 EXCEPT !.folder = folder, !.now = clock,
                                !.ttlMillis = toMilliSec(st.ttlMinites),
                                !.arr = children[folder], !.idx = 1,
                                !.listed = children[folder]])

\* runCleanUp without the checkInterval test of line 60
runCleanUp_NoIntervalTest(st) ==
    LET s0 == [FreeSweep EXCEPT !.start = st]
    IN  IF ~st.confirmed
        THEN [s0 EXCEPT !.pc = "done", !.exit = "unconfirmed",
                        !.out = <<WarningNotice>>]
        ELSE Sweep(s0, st)

\* runCleanUp without the confirmed test of lines 61-66
runCleanUp_NoConfirmTest(st) ==
    LET s0 == [FreeSweep EXCEPT !.start = st]
    IN  IF st.checkInterval = 0
        THEN [s0 EXCEPT !.pc = "done", !.exit = "interval0"]
        ELSE Sweep(s0, st)

\* runCleanUp with the return of line 65 left out: it warns and goes on
runCleanUp_WarnOnly(st) ==
    LET s0 == [FreeSweep EXCEPT !.start = st]
    IN  IF st.checkInterval = 0
        THEN [s0 EXCEPT !.pc = "done", !.exit = "interval0"]
        ELSE IF ~st.confirmed
        THEN Sweep([s0 EXCEPT !.out = <<WarningNotice>>], st)
        ELSE Sweep(s0, st)

\* runCleanUp behind a guard: it returns when an activation is in flight
runCleanUp_Guarded(st) ==
    LET s0 == [FreeSweep EXCEPT !.start = st]
    IN  IF \E s \in DOMAIN sweeps : s.pc = "await"
        THEN [s0 EXCEPT !.pc = "done", !.exit = "busy"]
        ELSE IF st.checkInterval = 0
        THEN [s0 EXCEPT !.pc = "done", !.exit = "interval0"]
        ELSE IF ~st.confirmed
        THEN [s0 EXCEPT !.pc = "done", !.exit = "unconfirmed",
                        !.out = <<WarningNotice>>]
        ELSE Sweep(s0, st)

\* runCleanUp() up to its first await or its return
runCleanUp(st) ==
    LET s0 == [FreeSweep EXCEPT !.start = st]
    IN  IF st.checkInterval = 0
        THEN [s0 EXCEPT !.pc = "done", !.exit = "interval0"]
        ELSE IF ~st.confirmed
        THEN [s0 EXCEPT !.pc = "done", !.exit = "unconfirmed",
                        !.out = <<WarningNotice>>]
        ELSE Sweep(s0, st)

\* the activations still running: one that has returned or thrown keeps its
\* record for one state and is then dropped
Live ==
    [s \in {x \in DOMAIN sweeps : x.pc = "await"} |-> sweeps[s]]

\* the activations suspended at line 78
Suspended == DOMAIN Live

\* the folder whose children array holds file
ParentOf(file) == CHOOSE f \in Folders : file \in Range(children[f])

\* host: the vault after file has been moved to the trash
Trashed(file) ==
    IF file \in Present
    THEN [children EXCEPT ![ParentOf(file)] = Remove(@, file)]
    ELSE children

\* the iterator array of a suspended activation after the host has removed
\* file: the same array object when the host splices in place, the array as
\* it was when the host installs a new one
ArrAfter(s, file, ch) ==
    IF inPlace /\ s.pc = "await" /\ file \in Range(s.arr) THEN ch[s.folder]
    ELSE s.arr

\* lines 79-85 for activation s once line 78 has resolved: cur is trashed
Resumed(s) ==
    LET file == s.cur
    IN  RunLoop([s EXCEPT !.arr = ArrAfter(s, file, Trashed(file)),
                          !.delFiles = Append(@, file),
                          !.trashed = Append(@, file)])

\* line 78 resolves for activation s: the host has trashed cur, s goes on
\* and the other activations' iterators see the host's change
trashResolved(s) ==
    LET file == s.cur
        ch   == Trashed(file)
        seen == BagOfAll(LAMBDA x : [x EXCEPT !.arr = ArrAfter(x, file, ch)],
                         Live (-) SetToBag({s}))
    IN  seen (+) SetToBag({Resumed(s)})

\* trashRejected with the exception caught inside the loop: the loop goes on
trashRejected_Continues(s) ==
    (Live (-) SetToBag({s})) (+) SetToBag({RunLoop(s)})

\* line 78 rejects for activation s: the exception leaves runCleanUp
trashRejected(s) ==
    (Live (-) SetToBag({s}))
        (+) SetToBag({[s EXCEPT !.pc = "threw", !.exit = "throw"]})

----------------------------------------------------------------------------
(* The scheduler *)

NoTimers == [h \in {} |-> 0]

\* window.setInterval: the handle the host returns
NewHandle(tm) == CHOOSE h \in 1..MaxTimers \ DOMAIN tm : \A g \in 1..MaxTimers \ DOMAIN tm : h <= g

setInterval(tm, h, ms) == [g \in DOMAIN tm \cup {h} |-> IF g = h THEN ms ELSE tm[g]]

clearInterval(tm, h) == [g \in DOMAIN tm \ {h} |-> tm[g]]

\* onunload without line 39: the timer is cancelled, the handle is kept
onunload_KeepsHandle(p) ==
    IF p.intervalId # 0
    THEN [intervalId |-> p.intervalId,
          timers |-> clearInterval(p.timers, p.intervalId)]
    ELSE p

\* onunload without line 38: the handle is cleared, the timer runs on
onunload_ForgetsTimer(p) ==
    IF p.intervalId # 0
    THEN [intervalId |-> 0, timers |-> p.timers]
    ELSE p

\* onunload() on the pair (this.intervalId, the host's timers); 0 is null
onunload(p) ==
    IF p.intervalId # 0
    THEN [intervalId |-> 0, timers |-> clearInterval(p.timers, p.intervalId)]
    ELSE p

\* lines 44-50: the notice startInterval emits
StartNotice(st) ==
    IF st.checkInterval = 0 THEN StoppedNotice ELSE EveryNotice(st.checkInterval)

\* Schedule with the handle setInterval returns thrown away
Schedule_HandleNotStored(st, p) ==
    LET intervalMs == toMilliSec(st.checkInterval)
        h == NewHandle(p.timers)
    IN  [intervalId |-> p.intervalId,
         timers |-> setInterval(p.timers, h, intervalMs)]

\* Schedule with no call of setInterval
Schedule_NoTimer(st, p) == p

\* lines 52-56: the timer startInterval sets, on the pair (intervalId, timers)
Schedule(st, p) ==
    LET intervalMs == toMilliSec(st.checkInterval)
        h == NewHandle(p.timers)
    IN  [intervalId |-> h, timers |-> setInterval(p.timers, h, intervalMs)]

\* startInterval() with this.settings = st and (intervalId, timers) = p
startInterval(st, p) ==
    /\ BagCardinality(Live) < MaxSweeps
    /\ DOMAIN p.timers # 1..MaxTimers
    /\ LET sweep == runCleanUp(st)
           q == Schedule(st, p)
       IN  /\ sweeps' = Live (+) SetToBag({sweep})
           /\ intervalId' = q.intervalId
           /\ timers' = q.timers
           /\ notices' = <<StartNotice(st)>> \o sweep.out

----------------------------------------------------------------------------
(* Inputs *)

CTimes == {0, 1}
ClockValues == {60000, 60001}

StoredData ==
    { NoData,
      [checkInterval |-> 10, confirmed |-> TRUE, ttlMinites |-> 1] }

\* tmp/a.md names a file until a sweep has trashed it, and nothing after
FolderInputs ==
    { tmp, <<" ">> \o tmp \o <<"/", " ">>, fileA }

\* "1e5" and "10e3" are values a number field hands over as typed
TtlInputs ==
    { <<"1">>, <<"1","4","4","0">>, <<"0">>, <<"1","0","0","8","1">>, <<"a">>, <<>>,
      <<"1","e","5">> }

IntervalInputs ==
    { <<"0">>, <<"1","0">>, <<"1","4","4","1">>, <<"-","1">>, <<"x">>,
      <<"1","0","e","3">> }

----------------------------------------------------------------------------
(* Initial state: the plugin object constructed, onload not yet called *)

Init ==
    /\ phase = "new"
    /\ settings = Undefined
    /\ intervalId = 0
    /\ data \in StoredData
    /\ timers = NoTimers
    /\ children = [f \in Folders |->
                     IF f = tmp THEN <<fileA, fileB, fileC, tmpSub>> ELSE <<fileD>>]
    /\ ctime \in {c \in [Files -> CTimes] : c[fileA] = 0 /\ c[fileC] = 0 /\ c[fileD] = 0}
    /\ inPlace \in BOOLEAN
    /\ clock = 60000
    /\ sweeps = EmptyBag
    /\ pendingSave = 0
    /\ notices = <<>>

----------------------------------------------------------------------------
(* Actions *)

\* lines 30-34
onload ==
    /\ phase = "new"
    /\ phase' = "loaded"
    /\ settings' = loadSettings(data)
    /\ startInterval(settings', [intervalId |-> intervalId, timers |-> timers])
    /\ UNCHANGED <<data, children, ctime, inPlace, clock, pendingSave>>

\* HostUnload if unloading cancelled the sweeps in flight
HostUnload_CancelsSweeps ==
    /\ phase = "loaded"
    /\ phase' = "unloaded"
    /\ LET q == onunload([intervalId |-> intervalId, timers |-> timers])
       IN  intervalId' = q.intervalId /\ timers' = q.timers
    /\ notices' = <<>>
    /\ sweeps' = EmptyBag
    /\ UNCHANGED <<settings, data, children, ctime, inPlace, clock,
                   pendingSave>>

\* the host disables the plugin: lines 36-41
HostUnload ==
    /\ phase = "loaded"
    /\ phase' = "unloaded"
    /\ LET q == onunload([intervalId |-> intervalId, timers |-> timers])
       IN  intervalId' = q.intervalId /\ timers' = q.timers
    /\ notices' = <<>>
    /\ sweeps' = Live
    /\ UNCHANGED <<settings, data, children, ctime, inPlace, clock,
                   pendingSave>>

\* a live timer fires: line 54
TimerTick ==
    /\ \E h \in DOMAIN timers : TRUE
    /\ BagCardinality(Live) < MaxSweeps
    /\ LET sweep == runCleanUp(settings)
       IN  /\ sweeps' = Live (+) SetToBag({sweep})
           /\ notices' = sweep.out
    /\ UNCHANGED <<phase, settings, intervalId, data, timers, children, ctime,
                   inPlace, clock, pendingSave>>

\* the trashFile a runCleanUp awaits resolves: lines 78-85
TrashResolve ==
    \E s \in Suspended :
        /\ children' = Trashed(s.cur)
        /\ sweeps' = trashResolved(s)
        /\ notices' = Resumed(s).out
        /\ UNCHANGED <<phase, settings, intervalId, data, timers, ctime,
                       inPlace, clock, pendingSave>>

\* the trashFile a runCleanUp awaits rejects: line 78
TrashReject ==
    \E s \in Suspended :
        /\ sweeps' = trashRejected(s)
        /\ notices' = <<>>
        /\ UNCHANGED <<phase, settings, intervalId, data, timers, children,
                       ctime, inPlace, clock, pendingSave>>

\* time passes
ClockAdvance ==
    /\ \E t \in ClockValues : t > clock /\ clock' = t
    /\ notices' = <<>>
    /\ sweeps' = Live
    /\ UNCHANGED <<phase, settings, intervalId, data, timers, children,
                   ctime, inPlace, pendingSave>>

\* lines 117-122: the "Initialize settings" button
Reset ==
    /\ phase = "loaded"
    /\ settings' = DEFAULT_SETTINGS
    /\ data' = settings'
    /\ notices' = <<ResetNotice>>
    /\ sweeps' = Live
    /\ UNCHANGED <<phase, intervalId, timers, children, ctime, inPlace,
                   clock, pendingSave>>

\* this.settings and the persisted record, as the settings tab's handlers
\* read and write them
Stored == [settings |-> settings, data |-> data]

\* saveSettings(): saveData(this.settings)
saveSettings(st) == [settings |-> st, data |-> st]

\* lines 134-137: the target folder onChange
folderOnChange(p, value) ==
    saveSettings([p.settings EXCEPT !.targetFolder = trim(value)])

\* the target folder input
FolderInput ==
    /\ phase = "loaded"
    /\ \E q \in {folderOnChange(Stored, value) : value \in FolderInputs} :
           settings' = q.settings /\ data' = q.data
    /\ notices' = <<>>
    /\ sweeps' = Live
    /\ UNCHANGED <<phase, intervalId, timers, children, ctime, inPlace, clock,
                   pendingSave>>

\* line 151
TtlValid(numVal) == ~isNaN(numVal) /\ numVal.val >= 1 /\ numVal.val <= 10080

\* lines 149-155: the expiration time onChange
ttlOnChange(p, value) ==
    LET numVal == parseInt(value)
    IN  IF TtlValid(numVal)
        THEN saveSettings([p.settings EXCEPT !.ttlMinites = numVal.val])
        ELSE p

\* the expiration time input
TtlInput ==
    /\ phase = "loaded"
    /\ \E q \in {ttlOnChange(Stored, value) : value \in TtlInputs} :
           settings' = q.settings /\ data' = q.data
    /\ notices' = <<>>
    /\ sweeps' = Live
    /\ UNCHANGED <<phase, intervalId, timers, children, ctime, inPlace, clock,
                   pendingSave>>

\* line 171
IntervalValid(numVal) == ~isNaN(numVal) /\ numVal.val >= 0 /\ numVal.val <= 1440

\* lines 169-173: the interval onChange up to await saveSettings; saved says
\* whether it got there
intervalOnChange(p, value) ==
    LET numVal == parseInt(value)
    IN  IF IntervalValid(numVal)
        THEN [stored |-> saveSettings([p.settings EXCEPT !.checkInterval = numVal.val]),
              saved |-> TRUE]
        ELSE [stored |-> p, saved |-> FALSE]

\* the interval input
IntervalInput ==
    /\ phase = "loaded"
    /\ \E q \in {intervalOnChange(Stored, value) : value \in IntervalInputs} :
           /\ q.saved => pendingSave < MaxPending
           /\ settings' = q.stored.settings
           /\ data' = q.stored.data
           /\ pendingSave' = IF q.saved THEN pendingSave + 1 ELSE pendingSave
    /\ notices' = <<>>
    /\ sweeps' = Live
    /\ UNCHANGED <<phase, intervalId, timers, children, ctime, inPlace, clock>>

\* lines 174-175: the interval input after await saveSettings
IntervalRestart ==
    /\ pendingSave > 0
    /\ pendingSave' = pendingSave - 1
    /\ startInterval(settings, onunload([intervalId |-> intervalId, timers |-> timers]))
    /\ UNCHANGED <<phase, settings, data, children, ctime, inPlace, clock>>

\* lines 186-194: the confirmation toggle
ConfirmToggle ==
    /\ phase = "loaded"
    /\ \E value \in BOOLEAN :
           /\ settings' = [settings EXCEPT !.confirmed = value]
           /\ notices' = <<ConfirmNotice(value)>>
    /\ data' = settings'
    /\ sweeps' = Live
    /\ UNCHANGED <<phase, intervalId, timers, children, ctime, inPlace,
                   clock, pendingSave>>

Next ==
    \/ onload
    \/ HostUnload
    \/ TimerTick
    \/ TrashResolve
    \/ TrashReject
    \/ ClockAdvance
    \/ Reset
    \/ FolderInput
    \/ TtlInput
    \/ IntervalInput
    \/ IntervalRestart
    \/ ConfirmToggle

Spec == Init /\ [][Next]_vars

----------------------------------------------------------------------------
(* Properties *)

\* the activations a state holds: running, or returned or thrown in the
\* step that led to it
Active == DOMAIN sweeps

\* the files an activation has handed to trashFile
Called(s) == Range(s.called)

\* the folder a path lies directly in
RECURSIVE DirName(_)
DirName(path) ==
    IF path = <<>> THEN <<>>
    ELSE IF path[Len(path)] = "/" THEN SubSeq(path, 1, Len(path) - 1)
    ELSE DirName(SubSeq(path, 1, Len(path) - 1))

\* some child of tmp passes the test of lines 75-77 under the current
\* settings and clock
TmpHasExpired ==
    /\ phase # "new"
    /\ NextHit(children[tmp], 1, clock, toMilliSec(settings.ttlMinites)) # 0

\* a step in which some activation hands a file to trashFile: a new
\* activation reaches line 78, or a suspended one reaches it again
TrashFileCalled ==
    \/ BagCardinality(Live') > BagCardinality(Live)
    \/ BagCardinality(Live') = BagCardinality(Live) /\ Live' # Live

\* C1 as stated: a file is handed to trashFile only while the current
\* settings have confirmed = true and checkInterval > 0.
C1_TrashOnlyWhileGateOpen ==
    [][TrashFileCalled => settings'.confirmed /\ settings'.checkInterval > 0]_vars

\* C1 as amended: a file is handed to trashFile only by an activation of
\* runCleanUp that read confirmed = true and checkInterval > 0 when it began.
C1_TrashOnlyIfGateOpenAtStart ==
    \A s \in Active :
        s.called # <<>> =>
            s.start.confirmed /\ s.start.checkInterval > 0

\* an activation is suspended at a deletion while the settings are now
\* unconfirmed or the interval is now 0
C1_Witness ==
    \E s \in Suspended :
        /\ s.called # <<>>
        /\ (~settings.confirmed \/ settings.checkInterval = 0)

\* C2: an activation that reads checkInterval = 0 returns at once: it hands
\* no file to trashFile and emits no notice, whatever the other settings and
\* the folder.
C2_IntervalZeroIsNoOp ==
    \A s \in Active :
        s.start.checkInterval = 0 =>
            /\ s.pc = "done"
            /\ s.exit = "interval0"
            /\ s.called = <<>>
            /\ s.trashed = <<>>
            /\ s.out = <<>>

\* an activation returned on checkInterval = 0 although the settings are
\* confirmed and tmp, the target, holds an expired md file
C2_Witness ==
    \E s \in Active :
        /\ s.exit = "interval0"
        /\ s.start = settings
        /\ settings.confirmed
        /\ normalizePath(settings.targetFolder) = tmp
        /\ TmpHasExpired

\* C3: an activation that reads confirmed = false with checkInterval > 0
\* emits the warning notice, only it, and returns without handing any file
\* to trashFile.
C3_UnconfirmedWarnsOnly ==
    \A s \in Active :
        (~s.start.confirmed /\ s.start.checkInterval > 0) =>
            /\ s.pc = "done"
            /\ s.exit = "unconfirmed"
            /\ s.out = <<WarningNotice>>
            /\ s.called = <<>>
            /\ s.trashed = <<>>

\* an activation returned on confirmed = false although the interval is
\* positive and tmp, the target, holds an expired md file
C3_Witness ==
    \E s \in Active :
        /\ s.exit = "unconfirmed"
        /\ s.start = settings
        /\ settings.checkInterval > 0
        /\ normalizePath(settings.targetFolder) = tmp
        /\ TmpHasExpired

\* C4: every file handed to trashFile is a file with extension md lying
\* directly in the folder the activation resolved from targetFolder; so an
\* entry the vault has lost is an md file, and folders, files of other
\* extensions and files in a subfolder of the target stay.
C4_OnlyDirectMdChildren ==
    /\ \A s \in Active : \A f \in Called(s) :
           /\ IsTFile(f)
           /\ Extension(f) = md
           /\ DirName(f) = s.folder
           /\ s.folder = normalizePath(s.start.targetFolder)
    /\ \A e \in (Folders \cup Files) \ Present :
           IsTFile(e) /\ Extension(e) = md /\ DirName(e) = tmp

\* a sweep of tmp has returned after trashing a file, while c.txt and
\* sub/d.md, both older than the TTL, are still in the vault
C4_Witness ==
    \E s \in Active :
        /\ s.pc = "done"
        /\ s.trashed # <<>>
        /\ s.folder = tmp
        /\ {fileC, fileD, tmpSub} \subseteq Present
        /\ s.now - ctime[fileC] > s.ttlMillis
        /\ s.now - ctime[fileD] > s.ttlMillis

\* C5: a file is handed to trashFile only if now - ctime > ttlMinites * 60000
\* with the now and the ttlMinites the activation read when it began; a file
\* with now - ctime = ttlMillis is not.
C5_StrictAgeBoundary ==
    \A s \in Active :
        /\ s.now <= clock
        /\ \A f \in Called(s) :
               s.now - ctime[f] > s.start.ttlMinites * 60000

\* a sweep has returned after trashing a file and has left b.md, whose age
\* was exactly the TTL, in the folder
C5_Witness ==
    \E s \in Active :
        /\ s.pc = "done"
        /\ s.trashed # <<>>
        /\ fileB \in Range(s.listed)
        /\ s.now - ctime[fileB] = s.ttlMillis
        /\ fileB \in Present
        /\ fileB \notin Called(s)

\* C6 as stated: a sweep hands no file to trashFile twice, and a sweep that
\* has run its loop to the end has handed to trashFile every md file that
\* was a child of the folder when the loop began and older than the TTL.
C6_EveryExpiredTrashedOnce ==
    \A s \in Active :
        /\ \A j, k \in 1..Len(s.called) :
               s.called[j] = s.called[k] => j = k
        /\ (s.pc = "done" /\ s.exit = "end") =>
               \A k \in 1..Len(s.listed) :
                   ShouldTrash(s.listed[k], s.now, s.ttlMillis)
                       => s.listed[k] \in Called(s)

\* C7 as stated: after startInterval has run with checkInterval = 0 (its
\* notice is the "stopped" one) no timer handle is held and no timer is
\* live, so no periodic runCleanUp fires.
C7_StartWithZeroSchedulesNothing ==
    (notices # <<>> /\ notices[1] = StoppedNotice) =>
        intervalId = 0 /\ DOMAIN timers = {}

\* C8 as stated: once the settings-surface handlers have completed, every
\* live timer has the period checkInterval minutes of the current settings.
C8_NoStaleTimer ==
    (phase = "loaded" /\ pendingSave = 0) =>
        \A h \in DOMAIN timers : timers[h] = toMilliSec(settings.checkInterval)

\* this.intervalId and the host's timers, as onunload reads them
SchedulerState == [intervalId |-> intervalId, timers |-> timers]

\* C9: onunload with a handle held cancels that timer, no other, and clears
\* the handle; with no handle held it changes nothing; and onunload applied
\* twice leaves what onunload applied once leaves.
C9_StopIdempotent ==
    LET p == SchedulerState
        q == onunload(p)
    IN  /\ onunload(q) = q
        /\ p.intervalId = 0 => q = p
        /\ p.intervalId # 0 =>
               /\ q.intervalId = 0
               /\ DOMAIN q.timers = DOMAIN p.timers \ {p.intervalId}
               /\ \A h \in DOMAIN q.timers : q.timers[h] = p.timers[h]

\* the host has unloaded the plugin, which cancelled the timer and cleared
\* the handle, and an interval handler is about to call onunload again
C9_Witness ==
    /\ phase = "unloaded"
    /\ intervalId = 0
    /\ DOMAIN timers = {}
    /\ pendingSave > 0

\* the "Deleted files" notices among those an activation has emitted
DeletedNotices(s) == SelectSeq(s.out, LAMBDA n : n.kind = "deleted")

\* the notices C10 asks of an activation that has ended
SummaryOf(s) ==
    IF s.trashed # <<>> THEN <<DeletedNotice(s.trashed)>> ELSE <<>>

\* C10 as stated: a sweep that has ended, however it ended, has emitted one
\* "Deleted files" notice listing the files it trashed, in order, if it
\* trashed any, and none otherwise.
C10_SummaryNoticeOfEverySweep ==
    \A s \in Active :
        s.pc \in {"done", "threw"} => DeletedNotices(s) = SummaryOf(s)

\* C10 as amended: a sweep that has returned has emitted one "Deleted files"
\* notice listing the files it trashed, in order, if it trashed any, and none
\* otherwise; a sweep still suspended, or ended by a rejected trashFile, has
\* emitted none, whatever it trashed before.
C10_SummaryNoticeOnReturn ==
    \A s \in Active :
        /\ s.pc = "done" => DeletedNotices(s) = SummaryOf(s)
        /\ s.pc # "done" => DeletedNotices(s) = <<>>

\* a sweep has returned after trashing two files and has emitted one notice
\* listing both
C10_Witness ==
    \E s \in Active :
        /\ s.pc = "done"
        /\ Len(s.trashed) = 2
        /\ s.out = <<DeletedNotice(s.trashed)>>
        /\ notices = s.out

\* a is an initial part of b
IsPrefix(a, b) == Len(a) <= Len(b) /\ SubSeq(b, 1, Len(a)) = a

\* the children that passed the test of lines 75-77 when s listed its folder
\* and that s has not handed to trashFile
Remaining(s) ==
    {f \in Range(s.listed) : ShouldTrash(f, s.now, s.ttlMillis) /\ f \notin Called(s)}

\* the step begins the activation n
Started(n) == sweeps' = Live (+) SetToBag({n})

\* n, begun by the step, owes nothing to an earlier activation: it has read
\* the settings, the clock and the folder's children as they are now
FromScratch(n) ==
    /\ n.start = settings'
    /\ n.trashed = <<>>
    /\ n.delFiles = <<>>
    /\ n.folder # Null =>
           /\ n.now = clock'
           /\ n.listed = children'[n.folder]
           /\ LET h == NextHit(n.listed, 1, n.now, toMilliSec(n.start.ttlMinites))
              IN  n.called = IF h = 0 THEN <<>> ELSE <<n.listed[h]>>

\* C11: a sweep hands a file to trashFile only when every file it handed
\* before has been trashed, so a sweep whose trashFile has rejected has
\* attempted nothing after the file that failed; the step in which a sweep
\* throws leaves the timers and the handle as they were; and a sweep that a
\* timer tick begins starts from scratch: current settings, current clock,
\* the folder's current children, nothing carried over.
C11_FailureAbortsSweepOnly ==
    /\ [](\A s \in Active :
            /\ IsPrefix(s.trashed, s.called)
            /\ s.pc = "done" => s.called = s.trashed
            /\ s.pc \in {"await", "threw"} => Len(s.called) = Len(s.trashed) + 1)
    /\ [][/\ (\E s \in DOMAIN sweeps' : s.pc = "threw") =>
                 timers' = timers /\ intervalId' = intervalId
          /\ \A n \in DOMAIN sweeps' :
                 (Started(n) /\ timers' = timers) => FromScratch(n)]_vars

\* a sweep has thrown at a file while another candidate of its listing is
\* still to come, and a timer is live to begin the next sweep
C11_Witness ==
    \E s \in Active :
        /\ s.pc = "threw"
        /\ Remaining(s) # {}
        /\ DOMAIN timers # {}

\* C12 as stated: when a sweep has run its loop to the end and the settings
\* and the clock are still those it read, the sweep begun next hands no file
\* to trashFile and emits no notice.
C12_SecondSweepTrashesNothing ==
    \A s \in Active :
        (s.pc = "done" /\ s.exit = "end" /\ s.start = settings /\ s.now = clock) =>
            LET n == runCleanUp(settings)
            IN  n.called = <<>> /\ n.out = <<>>

\* what the vault holds at the normalized target folder path of settings st
Target(st) == getAbstractFileByPath(normalizePath(st.targetFolder))

\* C13: a sweep that passes the two gates and whose normalized target path
\* names nothing, or a file, returns at once: it hands no file to
\* trashFile, emits no notice and does not throw, and a timer is still live.
C13_MissingTargetIsSilentNoOp ==
    \A s \in Active :
        (s.start.checkInterval > 0 /\ s.start.confirmed
            /\ ~IsTFolder(Target(s.start))) =>
            /\ s.pc = "done"
            /\ s.exit = "nofolder"
            /\ s.called = <<>>
            /\ s.trashed = <<>>
            /\ s.out = <<>>
            /\ DOMAIN timers # {}

\* a timer tick has begun a sweep, both gates open, whose target path names
\* a file of the vault: the sweep has returned and the timer is as it was
C13_Witness ==
    \E s \in Active :
        /\ s.exit = "nofolder"
        /\ s.start.confirmed /\ s.start.checkInterval > 0
        /\ s.start = settings
        /\ IsTFile(Target(settings))
        /\ notices = <<>>
        /\ intervalId \in DOMAIN timers
        /\ timers[intervalId] = toMilliSec(settings.checkInterval)

\* C14: when startInterval has run with checkInterval = N > 0 (its notice,
\* "every N minutes", is the first of the step) the step has begun one
\* sweep that read the current settings and whose notices follow that
\* notice, a timer of period N * 60000 ms is live and intervalId is its
\* handle.
C14_StartNoticeSweepTimer ==
    (notices # <<>> /\ notices[1].kind = "every") =>
        /\ settings.checkInterval > 0
        /\ notices[1] = EveryNotice(settings.checkInterval)
        /\ \E s \in Active :
               /\ s.start = settings
               /\ s.trashed = <<>>
               /\ Len(s.called) <= 1
               /\ notices = <<notices[1]>> \o s.out
        /\ intervalId # 0
        /\ intervalId \in DOMAIN timers
        /\ timers[intervalId] = settings.checkInterval * 60000

\* startInterval has run with checkInterval = 10: its sweep is suspended at
\* its first deletion and the timer of 600000 ms is live under the handle
C14_Witness ==
    /\ notices = <<EveryNotice(10)>>
    /\ \E s \in Suspended : s.start = settings /\ Len(s.called) = 1
    /\ intervalId \in DOMAIN timers
    /\ timers[intervalId] = 600000

\* the steps of the program when every trashFile resolves
NextNoReject ==
    \/ onload
    \/ HostUnload
    \/ TimerTick
    \/ TrashResolve
    \/ ClockAdvance
    \/ Reset
    \/ FolderInput
    \/ TtlInput
    \/ IntervalInput
    \/ IntervalRestart
    \/ ConfirmToggle

\* ENABLED <<TimerTick>>_vars: a timer is live, the activation fits the
\* bound, and the tick changes the state
TimerTickEnabled ==
    /\ DOMAIN timers # {}
    /\ BagCardinality(Live) < MaxSweeps
    /\ LET sweep == runCleanUp(settings)
       IN  sweeps # Live (+) SetToBag({sweep}) \/ notices # sweep.out

\* ENABLED <<TrashResolve>>_vars: some activation is suspended at line 78
TrashResolveEnabled == Suspended # {}

\* the host fires a live timer again and again: WF_vars(TimerTick), with
\* ENABLED written out
TimerFairness == []<>(~TimerTickEnabled) \/ []<><<TimerTick>>_vars

\* the promise of trashFile is settled, here by resolving:
\* WF_vars(TrashResolve), with ENABLED written out
TrashFairness == []<>(~TrashResolveEnabled) \/ []<><<TrashResolve>>_vars

\* every deletion succeeds; the host fires a live timer and settles the
\* promise of trashFile
ExpirySpec ==
    /\ Init
    /\ [][NextNoReject]_vars
    /\ TimerFairness
    /\ TrashFairness

\* f is a child of the target folder that passes the test of lines 75-77
\* now, and both gates are open
Qualifies(f) ==
    /\ phase = "loaded"
    /\ settings.confirmed
    /\ settings.checkInterval > 0
    /\ IsTFolder(Target(settings))
    /\ f \in Range(children[Target(settings)])
    /\ ShouldTrash(f, clock, toMilliSec(settings.ttlMinites))

\* C15: when the plugin is loaded, confirmed, with checkInterval > 0, and a
\* direct md child of the existing target folder is older than the TTL,
\* then, deletions succeeding and timers firing, the file is eventually
\* trashed, unless one of those conditions ceases to hold first.
C15_EventualExpiry ==
    \A f \in Files : Qualifies(f) ~> (f \notin Present \/ ~Qualifies(f))

\* the host splices children in place, so the first sweep skipped b.md; a
\* later sweep has trashed it, the gates still open
C15_Witness ==
    /\ inPlace
    /\ phase = "loaded"
    /\ settings.confirmed /\ settings.checkInterval > 0
    /\ Target(settings) = tmp
    /\ fileA \notin Present
    /\ fileB \notin Present

\* one suspended activation is singled out, none being singled out yet
Observe ==
    /\ \A s \in DOMAIN sweeps : ~s.observed
    /\ \E s \in Suspended :
           sweeps' = (Live (-) SetToBag({s}))
                         (+) SetToBag({[s EXCEPT !.observed = TRUE]})
    /\ notices' = <<>>
    /\ UNCHANGED <<phase, settings, intervalId, data, timers, children, ctime,
                   inPlace, clock, pendingSave>>

\* the program's steps, and the choice of the activation to observe
NextObserved == Next \/ Observe

\* the observed activation is suspended at line 78
ObservedSuspended == \E s \in Suspended : s.observed

\* the trashFile the observed activation awaits resolves or rejects: the
\* activation reaches line 78 again, returns or throws
ObservedSettles ==
    /\ TrashResolve \/ TrashReject
    /\ \E s \in Suspended :
           /\ s.observed
           /\ \E t \in DOMAIN sweeps' :
                  /\ t.observed
                  /\ t.pc # "await" \/ Len(t.called) > Len(s.called)

\* the host settles the promise of every trashFile, that of the observed
\* activation among them: WF_vars(ObservedSettles), with ENABLED written out
SettleFairness ==
    []<>(~ObservedSuspended) \/ []<><<ObservedSettles>>_vars

\* the program with every pending trashFile settled in the end
SettleSpec == Init /\ [][NextObserved]_vars /\ SettleFairness

\* t is s, or s further on
Continues(s, t) ==
    /\ t.start = s.start
    /\ t.now = s.now
    /\ t.listed = s.listed
    /\ IsPrefix(s.called, t.called)
    /\ IsPrefix(s.trashed, t.trashed)

\* C16: no step removes a suspended sweep: each has a continuation in the
\* next state, and a step that settles no trashFile (onunload, a scheduler
\* restart, a settings change among them) leaves every suspended sweep as
\* it is; a sweep hands at most as many files to trashFile as its folder
\* listing held; and, every pending trashFile being settled in the end, a
\* suspended sweep, whichever is observed, returns or throws.
C16_SweepRunsToItsEnd ==
    /\ [][/\ BagCardinality(sweeps') >= BagCardinality(Live)
          /\ \A s \in DOMAIN Live : \E t \in DOMAIN sweeps' : Continues(s, t)
          /\ ~(TrashResolve \/ TrashReject \/ Observe) =>
                 Live \sqsubseteq sweeps']_vars
    /\ [](\A s \in Active :
            /\ Len(s.called) <= Len(s.listed)
            /\ s.idx <= Len(s.arr) + 1)
    /\ ObservedSuspended ~> ~ObservedSuspended

\* a sweep that began with the gates open has returned after two deletions,
\* the plugin unloaded and the settings unconfirmed in the meantime
C16_Witness ==
    \E s \in Active :
        /\ s.pc = "done"
        /\ s.exit = "end"
        /\ Len(s.trashed) = 2
        /\ phase = "unloaded"
        /\ ~settings.confirmed
        /\ intervalId = 0

\* C17: a sweep begun while another is suspended at a deletion is held back
\* by nothing: when the gates are open and the folder holds a candidate, the
\* new sweep hands it to trashFile and is suspended too, the earlier sweeps
\* still in flight.
C17_NoReentrancyGuard ==
    [][\A n \in DOMAIN sweeps' :
          (/\ Started(n)
           /\ Suspended # {}
           /\ settings.confirmed /\ settings.checkInterval > 0
           /\ IsTFolder(Target(settings))
           /\ NextHit(children[Target(settings)], 1, clock,
                      toMilliSec(settings.ttlMinites)) # 0) =>
              /\ n.pc = "await"
              /\ Len(n.called) = 1
              /\ Live \sqsubseteq Live'
              /\ BagCardinality(Live') = BagCardinality(Live) + 1]_vars

\* two sweeps are suspended over the same folder, one of them past its
\* first deletion
C17_Witness ==
    /\ BagCardinality(Live) = 2
    /\ \A s \in Suspended : s.folder = tmp
    /\ \E s \in Suspended : s.trashed # <<>>
    /\ \E s \in Suspended : s.trashed = <<>>

RECURSIVE Pow10(_)
Pow10(n) == IF n = 0 THEN 1 ELSE 10 * Pow10(n - 1)

\* the number a text denotes as a decimal numeral: an optional minus sign,
\* digits, and an optional exponent "e" digits; NaN when it is none
InputNumber(value) ==
    LET t    == trim(value)
        neg  == t # <<>> /\ Head(t) = "-"
        body == IF neg THEN Tail(t) ELSE t
        m    == DigitPrefix(body)
        rest == SubSeq(body, Len(m) + 1, Len(body))
        e    == IF rest # <<>> /\ Head(rest) = "e" THEN Tail(rest) ELSE <<>>
        abs  == IF rest = <<>> THEN DigitsValue(m)
                ELSE DigitsValue(m) * Pow10(DigitsValue(e))
    IN  IF m = <<>> THEN NaN
        ELSE IF rest # <<>> /\ (e = <<>> \/ DigitPrefix(e) # e) THEN NaN
        ELSE IF neg THEN Num(0 - abs) ELSE Num(abs)

\* v is a number from lo to hi
InRange(v, lo, hi) == ~isNaN(v) /\ v.val >= lo /\ v.val <= hi

\* C18 as stated: once loaded, ttlMinites is in 1..10080 and checkInterval
\* in 0..1440; a TTL input that is not a number from 1 to 10080 changes
\* neither the settings nor the stored record, and an interval input that is
\* not a number from 0 to 1440 changes neither and does not reach the
\* scheduler restart.
C18_BoundsPreserved ==
    phase # "new" =>
        /\ settings.ttlMinites \in 1..10080
        /\ settings.checkInterval \in 0..1440
        /\ \A value \in TtlInputs :
               ~InRange(InputNumber(value), 1, 10080) =>
                   ttlOnChange(Stored, value) = Stored
        /\ \A value \in IntervalInputs :
               ~InRange(InputNumber(value), 0, 1440) =>
                   intervalOnChange(Stored, value) = [stored |-> Stored, saved |-> FALSE]

\* C19: at most one timer is live, and when one is, intervalId is its handle.
C19_AtMostOneTimer ==
    /\ Cardinality(DOMAIN timers) <= 1
    /\ DOMAIN timers # {} => DOMAIN timers = {intervalId}

\* one interval handler has just restarted the scheduler while another is
\* still awaiting saveSettings: one timer is live, under the handle
C19_Witness ==
    /\ phase = "loaded"
    /\ pendingSave = 1
    /\ notices # <<>>
    /\ notices[1].kind \in {"every", "stopped"}
    /\ Cardinality(DOMAIN timers) = 1
    /\ intervalId \in DOMAIN timers

\* C20 as stated: once the host has unloaded the plugin no timer is live,
\* and no step after the unloading begins a sweep.
C20_NothingAfterUnload ==
    [][phase' = "unloaded" =>
          /\ DOMAIN timers' = {}
          /\ phase = "unloaded" =>
                 BagCardinality(sweeps') <= BagCardinality(Live)]_vars

====
